---- MODULE Spec2Model ----
(***************************************************************************)
(* n8n-bgs-oracledb: the Oracle Database node.                             *)
(*                                                                         *)
(* The module models OracleDb.execute (connection lifecycle, per-record    *)
(* loop, statement builders, result mapping, error handling) and the       *)
(* helper convertToOracleType of src/src/nodes/OracleDb/OracleDb.node.ts.  *)
(***************************************************************************)
EXTENDS Integers, Sequences, FiniteSets, TLC

VARIABLES
    pc,             \* position inside execute, or the harness that is running
    operation,      \* getNodeParameter('operation', 0)
    items,          \* getInputData(): sequence of records (item.json)
    options,        \* getNodeParameter('options', 0, {})
    continueOnFail, \* this.continueOnFail()
    params,         \* the operation's node parameters (query, table, columns, ...)
    connection,     \* the local `connection`: "undefined", "open" or "closed"
    i,              \* the loop index (0-based, as in the source)
    returnData,     \* the local `returnData`
    pending,        \* completion of the try/catch block while finally runs
    outcome,        \* what the caller of execute receives
    calls,          \* history: every connection.execute call issued
    thrown,         \* history: every per-record failure, <<index, thrown value>>
    closeCalls,     \* history: number of connection.close() invocations
    rejected,       \* history: what getConnection rejected with, <<>> if it did not
    console,        \* history: console.log / console.error lines
    database,       \* the database's view: records whose statement is committed,
                    \* and records whose statement awaits a commit
    input,          \* argument of the pure function under test
    output          \* its result

execVars == <<pc, operation, items, options, continueOnFail, params, connection,
              i, returnData, pending, outcome, calls, thrown, closeCalls, rejected,
              console, database>>
vars == <<pc, operation, items, options, continueOnFail, params, connection,
          i, returnData, pending, outcome, calls, thrown, closeCalls, rejected,
          console, database, input, output>>

(***************************************************************************)
(* Bounds of the model.                                                    *)
(***************************************************************************)
MaxItems == 2       \* input records per invocation
MaxFields == 2      \* fields of a sampled composite value
MaxColumnsLen == 4  \* characters of the `columns` parameter

(***************************************************************************)
(* JavaScript values, tagged by their runtime type.                        *)
(***************************************************************************)
JsNull == [tag |-> "null", v |-> 0]
JsUndefined == [tag |-> "undefined", v |-> 0]
JsBool(b) == [tag |-> "boolean", v |-> b]
JsNum(n) == [tag |-> "number", v |-> n]
JsStr(s) == [tag |-> "string", v |-> s]
JsDate(iso) == [tag |-> "Date", v |-> iso]
JsBuffer(bytes) == [tag |-> "Buffer", v |-> bytes]
JsObj(entries) == [tag |-> "object", v |-> entries]
JsArr(elems) == [tag |-> "array", v |-> elems]
JsBigInt(n) == [tag |-> "bigint", v |-> n]
JsSymbol(d) == [tag |-> "symbol", v |-> d]
JsFunction(src) == [tag |-> "function", v |-> src]

\* typeof value
typeof(value) ==
    IF value.tag \in {"null", "Date", "Buffer", "object", "array"} THEN "object"
    ELSE value.tag

\* value instanceof Date / Buffer
instanceofDate(value) == value.tag = "Date"
instanceofBuffer(value) == value.tag = "Buffer"

\* obj[key] on a plain object whose entries are <<key, value>> pairs
RECURSIVE Lookup(_, _, _)
Lookup(entries, key, k) ==
    IF k > Len(entries) THEN JsUndefined
    ELSE IF entries[k][1] = key THEN entries[k][2]
    ELSE Lookup(entries, key, k + 1)
Get(obj, key) == Lookup(obj.v, key, 1)

\* obj[key] = value: overwrite in place, or append a new property
SetEntry(entries, key, value) ==
    IF \E k \in 1..Len(entries) : entries[k][1] = key
    THEN [k \in 1..Len(entries) |->
            IF entries[k][1] = key THEN <<key, value>> ELSE entries[k]]
    ELSE Append(entries, <<key, value>>)

\* Array.prototype.join over TLA+ strings
RECURSIVE Join(_, _)
Join(strs, sep) ==
    IF Len(strs) = 0 THEN ""
    ELSE IF Len(strs) = 1 THEN strs[1]
    ELSE strs[1] \o sep \o Join(Tail(strs), sep)

\* JSON.stringify(value): JSON text of a value; properties whose value has no JSON
\* form are dropped from objects and become null inside arrays
HasNoJson(value) == value.tag \in {"undefined", "function", "symbol"}
RECURSIVE JsonEntries(_)
JsonEntries(entries) ==
    IF Len(entries) = 0 THEN <<>>
    ELSE IF HasNoJson(entries[1][2]) THEN JsonEntries(Tail(entries))
    ELSE <<entries[1]>> \o JsonEntries(Tail(entries))
RECURSIVE JSONstringify(_)
JSONstringify(value) ==
    CASE value.tag = "null" -> "null"
      [] value.tag = "boolean" -> IF value.v THEN "true" ELSE "false"
      [] value.tag = "number" -> ToString(value.v)
      [] value.tag = "string" -> ToString(value.v)
      [] value.tag = "Date" -> ToString(value.v)
      [] value.tag = "Buffer" ->
            "{\"type\":\"Buffer\",\"data\":["
            \o Join([k \in 1..Len(value.v) |-> ToString(value.v[k])], ",") \o "]}"
      [] value.tag = "array" ->
            "[" \o Join([k \in 1..Len(value.v) |->
                            IF HasNoJson(value.v[k]) THEN "null"
                            ELSE JSONstringify(value.v[k])], ",") \o "]"
      [] value.tag = "object" ->
            LET kept == JsonEntries(value.v)
            IN "{" \o Join([k \in 1..Len(kept) |->
                              ToString(kept[k][1]) \o ":" \o JSONstringify(kept[k][2])],
                           ",") \o "}"

\* String(value) for the values that reach the last branch of the normalizer
String(value) ==
    CASE value.tag = "bigint" -> ToString(value.v)
      [] value.tag = "symbol" -> "Symbol(" \o value.v \o ")"
      [] value.tag = "function" -> value.v
      [] OTHER -> ToString(value.v)

\* convertToOracleType with the composite test moved ahead of the Date and Buffer tests
convertToOracleType_objectFirst(value) ==
    IF value.tag = "null" \/ value.tag = "undefined" THEN JsNull
    ELSE IF typeof(value) = "boolean" THEN (IF value.v THEN JsNum(1) ELSE JsNum(0))
    ELSE IF typeof(value) = "object" THEN JsStr(JSONstringify(value))
    ELSE IF instanceofDate(value) THEN value
    ELSE IF instanceofBuffer(value) THEN value
    ELSE IF typeof(value) = "string" \/ typeof(value) = "number" THEN value
    ELSE JsStr(String(value))

\* convertToOracleType
convertToOracleType(value) ==
    IF value.tag = "null" \/ value.tag = "undefined" THEN JsNull
    ELSE IF typeof(value) = "boolean" THEN (IF value.v THEN JsNum(1) ELSE JsNum(0))
    ELSE IF instanceofDate(value) THEN value
    ELSE IF instanceofBuffer(value) THEN value
    ELSE IF typeof(value) = "object" THEN JsStr(JSONstringify(value))
    ELSE IF typeof(value) = "string" \/ typeof(value) = "number" THEN value
    ELSE JsStr(String(value))

(***************************************************************************)
(* Sampled values.                                                         *)
(***************************************************************************)
Scalars ==
    {JsNull, JsUndefined, JsBool(TRUE), JsBool(FALSE), JsNum(0), JsNum(1001),
     JsStr(""), JsStr("John"), JsDate("2024-01-15T00:00:00.000Z"),
     JsBuffer(<<1, 2>>), JsBigInt(7), JsSymbol("s"), JsFunction("() => 1")}

FieldValues == {JsNull, JsUndefined, JsBool(TRUE), JsNum(1001), JsStr("John")}
FieldNames == {"a", "b", "c"}

\* sequences over S of length at most n
SeqsUpTo(S, n) == UNION {[1..k -> S] : k \in 0..n}

\* plain objects with at most n fields, all field names distinct
ObjectsUpTo(n) ==
    {JsObj(e) : e \in {s \in SeqsUpTo(FieldNames \X FieldValues, n) :
                        \A j, k \in 1..Len(s) : j # k => s[j][1] # s[k][1]}}

Composites ==
    ObjectsUpTo(MaxFields)
    \cup {JsArr(e) : e \in SeqsUpTo({JsNull, JsUndefined, JsNum(0)}, MaxFields)}
    \cup {JsObj(<<<<"a", JsObj(<<<<"b", JsBool(FALSE)>>>>)>>,
                  <<"c", JsArr(<<JsStr("x"), JsDate("2024-01-15T00:00:00.000Z")>>)>>>>)}

Values == Scalars \cup Composites

(***************************************************************************)
(* Harness for convertToOracleType: one argument, one application.         *)
(***************************************************************************)
IdleExec ==
    /\ operation = "none"
    /\ items = <<>>
    /\ options = JsObj(<<>>)
    /\ continueOnFail = FALSE
    /\ params = JsObj(<<>>)
    /\ connection = "undefined"
    /\ i = 0
    /\ returnData = <<>>
    /\ pending = [kind |-> "none"]
    /\ outcome = [kind |-> "none"]
    /\ calls = <<>>
    /\ thrown = <<>>
    /\ closeCalls = 0
    /\ rejected = <<>>
    /\ console = <<>>
    /\ database = [committed |-> <<>>, uncommitted |-> <<>>]

NoOutput == [kind |-> "none"]

InitConvert ==
    /\ IdleExec
    /\ pc = "convert"
    /\ input \in Values
    /\ output = NoOutput

Convert ==
    /\ pc = "convert"
    /\ output = NoOutput
    /\ output' = [kind |-> "value", value |-> convertToOracleType(input)]
    /\ UNCHANGED <<execVars, input>>

NextConvert == Convert
SpecConvert == InitConvert /\ [][NextConvert]_vars

Alphabet == {"a", "b", ",", " "}

RECURSIVE Str(_)
Str(chars) == IF Len(chars) = 0 THEN "" ELSE chars[1] \o Str(Tail(chars))

\* String.prototype.split(sep): always at least one piece
RECURSIVE SplitFrom(_, _, _, _)
SplitFrom(chars, sep, cur, acc) ==
    IF Len(chars) = 0 THEN Append(acc, cur)
    ELSE IF chars[1] = sep THEN SplitFrom(Tail(chars), sep, <<>>, Append(acc, cur))
    ELSE SplitFrom(Tail(chars), sep, Append(cur, chars[1]), acc)
Split(chars, sep) == SplitFrom(chars, sep, <<>>, <<>>)

\* String.prototype.trim()
RECURSIVE TrimStart(_)
TrimStart(chars) ==
    IF Len(chars) > 0 /\ chars[1] = " " THEN TrimStart(Tail(chars)) ELSE chars
RECURSIVE TrimEnd(_)
TrimEnd(chars) ==
    IF Len(chars) > 0 /\ chars[Len(chars)] = " "
    THEN TrimEnd(SubSeq(chars, 1, Len(chars) - 1)) ELSE chars
Trim(chars) == TrimEnd(TrimStart(chars))

(***************************************************************************)
(* The insert statement (operation === 'insert').                          *)
(***************************************************************************)
\* columnList.forEach((col, idx) => { binds[`val${idx + 1}`] = convert(json[col]) })
RECURSIVE InsertBinds(_, _, _, _)
InsertBinds(columnList, json, idx, binds) ==
    IF idx >= Len(columnList) THEN binds
    ELSE InsertBinds(columnList, json, idx + 1,
                     SetEntry(binds, "val" \o ToString(idx + 1),
                              convertToOracleType(Get(json, Str(columnList[idx + 1])))))

\* the insert builder with bind names numbered from the 0-based index
BuildInsert_zeroBased(table, columns, json) ==
    LET pieces == Split(columns, ",")
        columnList == [k \in 1..Len(pieces) |-> Trim(pieces[k])]
        shifted == InsertBinds(columnList, json, 0, <<>>)
        binds == [k \in 1..Len(shifted) |->
                    <<"val" \o ToString(k - 1), shifted[k][2]>>]
        values == [k \in 1..Len(columnList) |-> ":val" \o ToString(k)]
    IN [sql |-> "INSERT INTO " \o table
                \o " (" \o Join([k \in 1..Len(columnList) |-> Str(columnList[k])], ",")
                \o ") VALUES (" \o Join(values, ",") \o ")",
        binds |-> binds]

BuildInsert(table, columns, json) ==
    LET pieces == Split(columns, ",")
        columnList == [k \in 1..Len(pieces) |-> Trim(pieces[k])]
        binds == InsertBinds(columnList, json, 0, <<>>)
        values == [k \in 1..Len(columnList) |-> ":val" \o ToString(k)]
    IN [sql |-> "INSERT INTO " \o table
                \o " (" \o Join([k \in 1..Len(columnList) |-> Str(columnList[k])], ",")
                \o ") VALUES (" \o Join(values, ",") \o ")",
        binds |-> binds]

\* records given to the insert builder
InsertRecords ==
    {JsObj(e) : e \in {s \in SeqsUpTo({"a", "b"} \X {JsNum(1001), JsBool(TRUE), JsStr("John")},
                                      MaxFields) :
                        \A j, k \in 1..Len(s) : j # k => s[j][1] # s[k][1]}}

InitInsert ==
    /\ IdleExec
    /\ pc = "insert"
    /\ input \in [table : {"employees"},
                  columns : SeqsUpTo(Alphabet, MaxColumnsLen),
                  json : InsertRecords]
    /\ output = NoOutput

Insert ==
    /\ pc = "insert"
    /\ output = NoOutput
    /\ output' = [kind |-> "statement",
                  stmt |-> BuildInsert(input.table, input.columns, input.json)]
    /\ UNCHANGED <<execVars, input>>

NextInsert == Insert
SpecInsert == InitInsert /\ [][NextInsert]_vars

\* the comma-separated pieces of a columns string, stated by positions
CommaPositions(columns) == {k \in 1..Len(columns) : columns[k] = ","}
NthComma(columns, n) ==
    CHOOSE p \in CommaPositions(columns) :
        Cardinality({q \in CommaPositions(columns) : q < p}) = n - 1
Piece(columns, n) ==
    LET N == Cardinality(CommaPositions(columns)) + 1
        first == IF n = 1 THEN 1 ELSE NthComma(columns, n - 1) + 1
        last == IF n = N THEN Len(columns) ELSE NthComma(columns, n) - 1
    IN SubSeq(columns, first, last)
Trimmed(chars) ==
    LET solid == {k \in 1..Len(chars) : chars[k] # " "}
    IN IF solid = {} THEN <<>>
       ELSE SubSeq(chars, CHOOSE k \in solid : \A j \in solid : k <= j,
                          CHOOSE k \in solid : \A j \in solid : k >= j)
ColumnName(columns, n) == Str(Trimmed(Piece(columns, n)))

Error(message) == [isError |-> TRUE, message |-> message]
NonError == [isError |-> FALSE, message |-> ""]   \* a thrown value that is no Error

\* a ?? b
Nullish(a, b) == IF a.tag \in {"null", "undefined"} THEN b ELSE a
\* a || b
OrElse(a, b) ==
    IF a.tag \in {"null", "undefined"} \/ a = JsBool(FALSE) \/ a = JsNum(0) \/ a = JsStr("")
    THEN b ELSE a

\* for (const [key, value] of Object.entries(obj)) binds[key] = convertToOracleType(value)
RECURSIVE ParamBinds(_, _)
ParamBinds(entries, binds) ==
    IF Len(entries) = 0 THEN binds
    ELSE ParamBinds(Tail(entries),
                    SetEntry(binds, entries[1][1], convertToOracleType(entries[1][2])))

\* the parameter objects whose JSON text JSON.parse is given in this model
ParamObjects ==
    {JsObj(<<>>),
     JsObj(<<<<"deptId", JsNum(10)>>>>),
     JsObj(<<<<"deptId", JsNum(10)>>, <<"active", JsBool(TRUE)>>>>),
     JsObj(<<<<"emp_id", JsNum(1001)>>, <<"note", JsNull>>>>)}

\* JSON.parse(text): the object whose JSON text this is, or a SyntaxError
JSONparse(text) ==
    IF \E o \in ParamObjects : JSONstringify(o) = text
    THEN [ok |-> TRUE, value |-> CHOOSE o \in ParamObjects : JSONstringify(o) = text]
    ELSE [ok |-> FALSE, value |-> JsUndefined]

\* the autoCommit option with the user's value ignored
AutoCommitOnly_ignoresUser(opts) == JsObj(<<<<"autoCommit", JsBool(TRUE)>>>>)

\* the autoCommit option defaulting to false
AutoCommitOnly_defaultOff(opts) ==
    JsObj(<<<<"autoCommit", Nullish(Get(opts, "autoCommit"), JsBool(FALSE))>>>>)

\* { autoCommit: options.autoCommit ?? true }
AutoCommitOnly(opts) ==
    JsObj(<<<<"autoCommit", Nullish(Get(opts, "autoCommit"), JsBool(TRUE))>>>>)

\* the executeOptions literal of the executeQuery branch
QueryExecuteOptions(opts) ==
    JsObj(<<<<"autoCommit", Nullish(Get(opts, "autoCommit"), JsBool(TRUE))>>,
            <<"fetchArraySize", Nullish(Get(opts, "fetchSize"), JsNum(100))>>,
            <<"maxRows", Nullish(Get(opts, "maxRows"), JsNum(0))>>,
            <<"outFormat", JsStr("OUT_FORMAT_OBJECT")>>>>)

Statement(sql, binds, executeOptions) ==
    [ok |-> TRUE, sql |-> sql, binds |-> binds, executeOptions |-> executeOptions,
     error |-> NonError]
Throws(error) ==
    [ok |-> FALSE, sql |-> "", binds |-> <<>>, executeOptions |-> JsObj(<<>>),
     error |-> error]

\* operation === 'executeQuery', up to the connection.execute call
BuildQuery(prm, opts) ==
    LET raw == prm.queryParams
        parsed == IF typeof(raw) = "string" THEN JSONparse(raw.v)
                  ELSE [ok |-> TRUE, value |-> raw]
    IN IF ~parsed.ok THEN Throws(Error("Invalid JSON in Query Parameters"))
       ELSE Statement(prm.query, ParamBinds(parsed.value.v, <<>>),
                      QueryExecuteOptions(opts))

\* operation === 'update': the SET assignments and their binds, in entry order
RECURSIVE UpdateSet(_, _, _, _, _)
UpdateSet(entries, updateKey, paramIndex, updates, binds) ==
    IF Len(entries) = 0
    THEN [updates |-> updates, binds |-> binds, paramIndex |-> paramIndex]
    ELSE IF entries[1][1] # updateKey
    THEN UpdateSet(Tail(entries), updateKey, paramIndex + 1,
                   Append(updates, entries[1][1] \o " = :val" \o ToString(paramIndex)),
                   SetEntry(binds, "val" \o ToString(paramIndex),
                            convertToOracleType(entries[1][2])))
    ELSE UpdateSet(Tail(entries), updateKey, paramIndex, updates, binds)

\* the update builder with the key bound under the name of the last SET bind
BuildUpdate_keyReusesVal(table, updateKey, itemData) ==
    LET set == UpdateSet(itemData.v, updateKey, 1, <<>>, <<>>)
        name == "val" \o ToString(set.paramIndex - 1)
    IN [sql |-> "UPDATE " \o table \o " SET " \o Join(set.updates, ", ")
                \o " WHERE " \o updateKey \o " = :" \o name,
        binds |-> SetEntry(set.binds, name, convertToOracleType(Get(itemData, updateKey)))]

BuildUpdate(table, updateKey, itemData) ==
    LET updateKeyValue == Get(itemData, updateKey)
        set == UpdateSet(itemData.v, updateKey, 1, <<>>, <<>>)
        binds == SetEntry(set.binds, "key" \o ToString(set.paramIndex),
                          convertToOracleType(updateKeyValue))
    IN [sql |-> "UPDATE " \o table \o " SET " \o Join(set.updates, ", ")
                \o " WHERE " \o updateKey \o " = :key" \o ToString(set.paramIndex),
        binds |-> binds]

\* operation === 'delete'
BuildDelete(table, deleteKey, json) ==
    [sql |-> "DELETE FROM " \o table \o " WHERE " \o deleteKey \o " = :deleteValue",
     binds |-> <<<<"deleteValue", convertToOracleType(Get(json, deleteKey))>>>>]

\* operation === 'executeProcedure', up to the connection.execute call
BuildProcedure(prm, opts) ==
    LET raw == prm.procedureParams
        parsed == IF typeof(raw) = "string" THEN JSONparse(raw.v)
                  ELSE [ok |-> TRUE, value |-> raw]
    IN IF ~parsed.ok THEN Throws(Error("Invalid JSON in Procedure Parameters"))
       ELSE LET entries == parsed.value.v
                paramNames == [k \in 1..Len(entries) |-> ":" \o entries[k][1]]
            IN Statement("BEGIN " \o prm.procedure \o "(" \o Join(paramNames, ", ")
                         \o "); END;",
                         ParamBinds(entries, <<>>), AutoCommitOnly(opts))

\* the statement the loop body sends for one record, or what it throws before sending
Prepare(op, prm, opts, json) ==
    CASE op = "executeQuery" -> BuildQuery(prm, opts)
      [] op = "insert" ->
            LET b == BuildInsert(prm.table, prm.columns, json)
            IN Statement(b.sql, b.binds, AutoCommitOnly(opts))
      [] op = "update" ->
            LET b == BuildUpdate(prm.table, prm.updateKey, json)
            IN Statement(b.sql, b.binds, AutoCommitOnly(opts))
      [] op = "delete" ->
            LET b == BuildDelete(prm.table, prm.deleteKey, json)
            IN Statement(b.sql, b.binds, AutoCommitOnly(opts))
      [] op = "executeProcedure" -> BuildProcedure(prm, opts)

(***************************************************************************)
(* The driver, as execute sees it.                                         *)
(***************************************************************************)
Row1 == JsObj(<<<<"EMPLOYEE_ID", JsNum(1001)>>, <<"FIRST_NAME", JsStr("John")>>>>)
Row2 == JsObj(<<<<"EMPLOYEE_ID", JsNum(1000)>>, <<"FIRST_NAME", JsStr("Ann")>>>>)

\* what connection.execute may resolve to
DriverResults(op) ==
    CASE op = "executeQuery" ->
            {JsObj(<<<<"rows", JsArr(<<>>)>>>>),
             JsObj(<<<<"rows", JsArr(<<Row1, Row2>>)>>>>),
             JsObj(<<<<"rowsAffected", JsNum(3)>>>>),
             JsObj(<<>>)}
      [] op = "executeProcedure" ->
            {JsObj(<<<<"outBinds", JsObj(<<<<"total", JsNum(5)>>>>)>>>>),
             JsObj(<<>>)}
      [] OTHER ->
            {JsObj(<<<<"rowsAffected", JsNum(1)>>>>), JsObj(<<>>)}

\* the effect on the database of a statement that connection.execute resolved:
\* with autoCommit it is committed, together with what was awaiting a commit
Executed(db, index, executeOptions) ==
    IF Get(executeOptions, "autoCommit") = JsBool(TRUE)
    THEN [committed |-> db.committed \o db.uncommitted \o <<index>>, uncommitted |-> <<>>]
    ELSE [db EXCEPT !.uncommitted = Append(db.uncommitted, index)]

\* the effect of connection.close(): the open transaction is rolled back
Closed(db) == [db EXCEPT !.uncommitted = <<>>]

\* what a driver call may reject with
DriverErrors == {Error("ORA-00942: table or view does not exist"), NonError}
ConnectErrors == {Error("ORA-12541: TNS:no listener"), NonError}

(***************************************************************************)
(* OracleDb.execute                                                        *)
(***************************************************************************)
Operations == {"executeQuery", "insert", "update", "delete", "executeProcedure"}

\* the node parameters with the defaults of the node description
DefaultParams ==
    [query |-> "", queryParams |-> JsStr("{}"), table |-> "", columns |-> <<>>,
     updateKey |-> "id", deleteKey |-> "id", procedure |-> "",
     procedureParams |-> JsStr("{}")]

ParamsOf(op) ==
    CASE op = "executeQuery" ->
            {[DefaultParams EXCEPT !.query = "SELECT * FROM employees WHERE d = :deptId",
                                   !.queryParams = q] :
                q \in {JsObj(<<<<"deptId", JsNum(10)>>, <<"active", JsBool(TRUE)>>>>),
                       JsStr("{\"deptId\":10}"),
                       JsStr("{deptId")}}
      [] op = "insert" ->
            {[DefaultParams EXCEPT !.table = "employees",
                                   !.columns = <<"i", "d", ",", " ", "a">>]}
      [] op = "update" ->
            {[DefaultParams EXCEPT !.table = "employees", !.updateKey = k] :
                k \in {"id", "a"}}
      [] op = "delete" ->
            {[DefaultParams EXCEPT !.table = "employees"]}
      [] op = "executeProcedure" ->
            {[DefaultParams EXCEPT !.procedure = "UPDATE_SALARY", !.procedureParams = q] :
                q \in {JsObj(<<<<"emp_id", JsNum(1001)>>, <<"note", JsNull>>>>),
                       JsStr("{emp_id")}}

\* the user's options collection
OptionSets ==
    {JsObj(<<>>),
     JsObj(<<<<"autoCommit", JsBool(FALSE)>>, <<"fetchSize", JsNum(50)>>>>),
     JsObj(<<<<"maxRows", JsNum(10)>>>>)}

\* input records (item.json)
Records ==
    {JsObj(<<<<"id", JsNum(1001)>>>>),
     JsObj(<<<<"id", JsNum(1001)>>, <<"a", JsNum(75000)>>>>),
     JsObj(<<<<"b", JsStr("John")>>, <<"id", JsNum(7)>>, <<"a", JsBool(TRUE)>>>>)}

NoCompletion == [kind |-> "none"]

Init ==
    /\ pc = "init"
    /\ operation \in Operations
    /\ params \in ParamsOf(operation)
    /\ items \in SeqsUpTo(Records, MaxItems)
    /\ options \in OptionSets
    /\ continueOnFail \in BOOLEAN
    /\ connection = "undefined"
    /\ i = 0
    /\ returnData = <<>>
    /\ pending = NoCompletion
    /\ outcome = NoCompletion
    /\ calls = <<>>
    /\ thrown = <<>>
    /\ closeCalls = 0
    /\ rejected = <<>>
    /\ console = <<>>
    /\ database = [committed |-> <<>>, uncommitted |-> <<>>]
    /\ input = JsUndefined
    /\ output = NoOutput

\* the outer catch with the message of the thrown Error dropped
OuterCatch_genericMessage(error) ==
    [kind |-> "throw",
     error |-> [name |-> "NodeOperationError", message |-> "An unknown error occurred"]]

\* the outer catch: every thrown value leaves as a NodeOperationError
OuterCatch(error) ==
    [kind |-> "throw",
     error |-> [name |-> "NodeOperationError",
                message |-> IF error.isError THEN error.message
                            ELSE "An unknown error occurred"]]

\* try { oracledb.initOracleClient() } catch (err) { console.log(...) }
InitOracleClient ==
    /\ pc = "init"
    /\ \E initThrows \in BOOLEAN :
          console' = IF initThrows
                     THEN Append(console, "Oracle client initialization skipped:")
                     ELSE console
    /\ pc' = "connect"
    /\ UNCHANGED <<operation, items, options, continueOnFail, params, connection, i,
                   returnData, pending, outcome, calls, thrown, closeCalls,
                   rejected, database, input, output>>

\* a getConnection whose rejection is swallowed, the loop starting without a connection
GetConnection_swallowsRejection ==
    /\ pc = "connect"
    /\ \/ /\ connection' = "open"
          /\ UNCHANGED rejected
       \/ \E error \in ConnectErrors :
            /\ rejected' = <<error>>
            /\ UNCHANGED connection
    /\ pc' = "loop"
    /\ UNCHANGED <<operation, items, options, continueOnFail, params, i, returnData,
                   pending, outcome, calls, thrown, closeCalls, console, database,
                   input, output>>

\* connection = await oracledb.getConnection(connectionConfig)
GetConnection ==
    /\ pc = "connect"
    /\ \/ /\ connection' = "open"
          /\ pc' = "loop"
          /\ UNCHANGED <<pending, rejected>>
       \/ \E error \in ConnectErrors :
            /\ rejected' = <<error>>
            /\ pending' = OuterCatch(error)
            /\ pc' = "finally"
            /\ UNCHANGED connection
    /\ UNCHANGED <<operation, items, options, continueOnFail, params, i, returnData,
                   outcome, calls, thrown, closeCalls, console, database, input, output>>

\* { success: true, rowsAffected: result.rowsAffected ?? 0 }
Summary(result) ==
    JsObj(<<<<"success", JsBool(TRUE)>>,
            <<"rowsAffected", Nullish(Get(result, "rowsAffected"), JsNum(0))>>>>)

\* the result mapping with an empty row list taken for "no row data"
MapResult_emptyRowsAsSummary(op, result) ==
    CASE op = "executeQuery" ->
            LET rows == Get(result, "rows")
            IN IF rows.tag = "array" /\ Len(rows.v) > 0 THEN rows.v
               ELSE <<Summary(result)>>
      [] op = "executeProcedure" ->
            <<JsObj(<<<<"success", JsBool(TRUE)>>,
                      <<"outBinds", OrElse(Get(result, "outBinds"), JsObj(<<>>))>>>>)>>
      [] OTHER -> <<Summary(result)>>

\* the result mapping with a procedure call summarised like a DML statement
MapResult_procedureSummary(op, result) ==
    CASE op = "executeQuery" ->
            LET rows == Get(result, "rows")
            IN IF rows.tag = "array" THEN rows.v ELSE <<Summary(result)>>
      [] OTHER -> <<Summary(result)>>

\* what a resolved connection.execute call appends to returnData
MapResult(op, result) ==
    CASE op = "executeQuery" ->
            LET rows == Get(result, "rows")
            IN IF rows.tag = "array" THEN rows.v ELSE <<Summary(result)>>
      [] op = "executeProcedure" ->
            <<JsObj(<<<<"success", JsBool(TRUE)>>,
                      <<"outBinds", OrElse(Get(result, "outBinds"), JsObj(<<>>))>>>>)>>
      [] OTHER -> <<Summary(result)>>

\* the per-record catch with continueOnFail(): the record's error item
ErrorItem(error) ==
    JsObj(<<<<"error", JsStr(IF error.isError THEN error.message
                             ELSE "Unknown error occurred")>>>>)

\* the per-record catch that skips a failed record without an error item
Caught_dropsItem(error) ==
    /\ thrown' = Append(thrown, [item |-> i, error |-> error])
    /\ IF continueOnFail
       THEN /\ i' = i + 1
            /\ UNCHANGED <<pc, pending, returnData>>
       ELSE /\ pending' = OuterCatch(error)
            /\ pc' = "finally"
            /\ UNCHANGED <<returnData, i>>

\* the per-record catch that never rethrows
Caught_alwaysContinues(error) ==
    /\ thrown' = Append(thrown, [item |-> i, error |-> error])
    /\ returnData' = Append(returnData, ErrorItem(error))
    /\ i' = i + 1
    /\ UNCHANGED <<pc, pending>>

\* the per-record catch that leaves the loop index on a captured failure, so that the
\* failed record is taken up again
Caught_retries(error) ==
    /\ thrown' = Append(thrown, [item |-> i, error |-> error])
    /\ IF continueOnFail
       THEN /\ returnData' = Append(returnData, ErrorItem(error))
            /\ UNCHANGED <<pc, pending, i>>
       ELSE /\ pending' = OuterCatch(error)
            /\ pc' = "finally"
            /\ UNCHANGED <<returnData, i>>

\* the per-record catch
Caught(error) ==
    /\ thrown' = Append(thrown, [item |-> i, error |-> error])
    /\ IF continueOnFail
       THEN /\ returnData' = Append(returnData, ErrorItem(error))
            /\ i' = i + 1
            /\ UNCHANGED <<pc, pending>>
       ELSE /\ pending' = OuterCatch(error)
            /\ pc' = "finally"
            /\ UNCHANGED <<returnData, i>>

\* one iteration of the loop over the input records
ProcessItem ==
    /\ pc = "loop"
    /\ i < Len(items)
    /\ LET req == Prepare(operation, params, options, items[i + 1])
       IN IF ~req.ok
          THEN Caught(req.error) /\ UNCHANGED <<calls, database>>
          ELSE \/ \E result \in DriverResults(operation) :
                    /\ calls' = Append(calls, [item |-> i, sql |-> req.sql,
                                               binds |-> req.binds,
                                               executeOptions |-> req.executeOptions,
                                               connection |-> connection,
                                               ok |-> TRUE, result |-> result])
                    /\ database' = Executed(database, i, req.executeOptions)
                    /\ returnData' = returnData \o MapResult(operation, result)
                    /\ i' = i + 1
                    /\ UNCHANGED <<pc, pending, thrown>>
               \/ \E error \in DriverErrors :
                    /\ calls' = Append(calls, [item |-> i, sql |-> req.sql,
                                               binds |-> req.binds,
                                               executeOptions |-> req.executeOptions,
                                               connection |-> connection,
                                               ok |-> FALSE, result |-> JsUndefined])
                    /\ UNCHANGED database
                    /\ Caught(error)
    /\ UNCHANGED <<operation, items, options, continueOnFail, params, connection,
                   outcome, closeCalls, rejected, console, input, output>>

\* return [returnData]
ReturnData ==
    /\ pc = "loop"
    /\ i >= Len(items)
    /\ pending' = [kind |-> "return", data |-> <<returnData>>]
    /\ pc' = "finally"
    /\ UNCHANGED <<operation, items, options, continueOnFail, params, connection, i,
                   returnData, outcome, calls, thrown, closeCalls, rejected, console,
                   database, input, output>>

\* a close that is reached on the normal return alone
Finally_closeOnlyOnReturn ==
    /\ pc = "finally"
    /\ IF connection # "undefined" /\ pending.kind = "return"
       THEN /\ closeCalls' = closeCalls + 1
            /\ \E closeThrows \in BOOLEAN :
                  IF closeThrows
                  THEN /\ console' = Append(console, "Error closing connection:")
                       /\ UNCHANGED <<connection, database>>
                  ELSE /\ connection' = "closed"
                       /\ database' = Closed(database)
                       /\ UNCHANGED console
       ELSE UNCHANGED <<closeCalls, console, connection, database>>
    /\ outcome' = pending
    /\ pc' = "done"
    /\ UNCHANGED <<operation, items, options, continueOnFail, params, i, returnData,
                   pending, calls, thrown, rejected, input, output>>

\* a finally block whose close failure replaces the completion of the try block
Finally_rethrowsCloseError ==
    /\ pc = "finally"
    /\ IF connection # "undefined"
       THEN /\ closeCalls' = closeCalls + 1
            /\ \E closeThrows \in BOOLEAN :
                  IF closeThrows
                  THEN /\ console' = Append(console, "Error closing connection:")
                       /\ outcome' = OuterCatch(Error("NJS-003: invalid connection"))
                       /\ UNCHANGED <<connection, database>>
                  ELSE /\ connection' = "closed"
                       /\ database' = Closed(database)
                       /\ outcome' = pending
                       /\ UNCHANGED console
       ELSE /\ outcome' = pending
            /\ UNCHANGED <<closeCalls, console, connection, database>>
    /\ pc' = "done"
    /\ UNCHANGED <<operation, items, options, continueOnFail, params, i, returnData,
                   pending, calls, thrown, rejected, input, output>>

\* finally { if (connection) { try { await connection.close() } catch { console.error } } }
Finally ==
    /\ pc = "finally"
    /\ IF connection # "undefined"
       THEN /\ closeCalls' = closeCalls + 1
            /\ \E closeThrows \in BOOLEAN :
                  IF closeThrows
                  THEN /\ console' = Append(console, "Error closing connection:")
                       /\ UNCHANGED <<connection, database>>
                  ELSE /\ connection' = "closed"
                       /\ database' = Closed(database)
                       /\ UNCHANGED console
       ELSE UNCHANGED <<closeCalls, console, connection, database>>
    /\ outcome' = pending
    /\ pc' = "done"
    /\ UNCHANGED <<operation, items, options, continueOnFail, params, i, returnData,
                   pending, calls, thrown, rejected, input, output>>

Next ==
    \/ InitOracleClient
    \/ GetConnection
    \/ ProcessItem
    \/ ReturnData
    \/ Finally

Spec == Init /\ [][Next]_vars

(***************************************************************************)
(* Properties of execute.                                                  *)
(***************************************************************************)
CallsOf(k) == {n \in DOMAIN calls : calls[n].item = k}
ThrownOf(k) == {n \in DOMAIN thrown : thrown[n].item = k}
Failed(k) == ThrownOf(k) # {}
ErrorOf(k) == thrown[CHOOSE n \in ThrownOf(k) : TRUE].error
CallOf(k) == calls[CHOOSE n \in CallsOf(k) : TRUE]
InitFailed == Len(console) > 0 /\ console[1] = "Oracle client initialization skipped:"
Acquired == pc \in {"loop", "finally", "done"} /\ rejected = <<>>
OneSummaryOps == {"insert", "update", "delete", "executeProcedure"}

\* C1 as stated: on every exit path, a failure to acquire the connection included,
\* the connection-close step is invoked exactly once.
C1_CloseOnEveryExitPath == pc = "done" => closeCalls = 1

\* C1 as amended: close is invoked exactly once on every exit path on which the
\* connection was acquired, never before the loop has ended, and not at all when
\* acquiring the connection failed.
C1_CloseOnceIfAcquired ==
    /\ closeCalls <= 1
    /\ pc # "done" => closeCalls = 0
    /\ pc = "done" => closeCalls = (IF rejected = <<>> THEN 1 ELSE 0)

C1_Witness ==
    /\ pc = "done"
    /\ closeCalls = 1
    /\ ~continueOnFail
    /\ Len(thrown) = 1
    /\ outcome.kind = "throw"

\* C2: with continue-past-failure enabled and an operation yielding one record per
\* input record, the invocation returns exactly N records in input order, position k
\* being {error: message} if record k failed and a success record otherwise, and the
\* records after a failing one are still executed.
C2_ContinuePastFailure ==
    (continueOnFail /\ operation \in OneSummaryOps /\ Acquired) =>
        /\ Len(returnData) = i
        /\ Len(thrown) <= i
        /\ \A k \in 0..(i - 1) :
             /\ Cardinality(CallsOf(k)) + Cardinality(ThrownOf(k)) >= 1
             /\ CallsOf(k) = {} => ErrorOf(k).message = "Invalid JSON in Procedure Parameters"
             /\ IF Failed(k)
                THEN returnData[k + 1] =
                        JsObj(<<<<"error", JsStr(IF ErrorOf(k).isError
                                                 THEN ErrorOf(k).message
                                                 ELSE "Unknown error occurred")>>>>)
                ELSE /\ Get(returnData[k + 1], "success") = JsBool(TRUE)
                     /\ Get(returnData[k + 1], "error") = JsUndefined
        /\ pc \in {"finally", "done"} => i = Len(items) /\ pending.kind = "return"
        /\ pc = "done" =>
             /\ outcome = [kind |-> "return", data |-> <<returnData>>]
             /\ Len(outcome.data[1]) = Len(items)

C2_Witness ==
    /\ pc = "done"
    /\ continueOnFail
    /\ operation = "insert"
    /\ Len(items) = 2
    /\ Failed(0) /\ ~Failed(1)
    /\ CallsOf(1) # {}
    /\ outcome.kind = "return"
    /\ Get(outcome.data[1][1], "error") = JsStr("ORA-00942: table or view does not exist")
    /\ Get(outcome.data[1][2], "success") = JsBool(TRUE)

\* C3: with continue-past-failure disabled, a failure of record k aborts at that
\* record: no later record is executed, none gets an output record, and the
\* invocation ends with a single error carrying the failure's message.
C3_AbortOnFailure ==
    (~continueOnFail /\ thrown # <<>>) =>
        LET k == thrown[1].item
            e == thrown[1].error
        IN /\ Len(thrown) = 1
           /\ pc \in {"finally", "done"}
           /\ i = k
           /\ \A n \in DOMAIN calls : calls[n].item <= k
           /\ operation \in OneSummaryOps => Len(returnData) = k
           /\ pending.kind = "throw"
           /\ pending.error.name = "NodeOperationError"
           /\ pending.error.message =
                (IF e.isError THEN e.message ELSE "An unknown error occurred")
           /\ pc = "done" => outcome = pending

C3_Witness ==
    /\ pc = "done"
    /\ ~continueOnFail
    /\ Len(items) = 2
    /\ thrown = <<[item |-> 0, error |-> Error("ORA-00942: table or view does not exist")]>>
    /\ Len(calls) = 1
    /\ outcome.kind = "throw"
    /\ outcome.error.message = "ORA-00942: table or view does not exist"

\* C4 as stated: a failure of the driver initialization or of acquiring the
\* connection aborts the invocation at once: no record is executed, no output is
\* returned, the caller receives one top-level error.
C4_InitOrAcquireFailureAborts ==
    (InitFailed \/ rejected # <<>>) =>
        /\ calls = <<>>
        /\ returnData = <<>>
        /\ pc \in {"connect", "finally", "done"}
        /\ pc = "done" => outcome.kind = "throw"

\* C4 as amended: a failure to acquire the connection aborts the invocation at once
\* (no record executed, no output, one top-level error with the failure's message,
\* or "An unknown error occurred" when the thrown value is no Error); a failure of
\* the driver initialization is logged and the invocation goes on.
C4_AcquireFailureAborts ==
    /\ rejected # <<>> =>
         /\ pc \in {"finally", "done"}
         /\ calls = <<>> /\ thrown = <<>> /\ returnData = <<>> /\ i = 0
         /\ pending = [kind |-> "throw",
                       error |-> [name |-> "NodeOperationError",
                                  message |-> IF rejected[1].isError
                                              THEN rejected[1].message
                                              ELSE "An unknown error occurred"]]
         /\ pc = "done" => outcome = pending
    /\ (pc = "done" /\ rejected = <<>> /\ thrown = <<>>) => outcome.kind = "return"
    /\ (pc = "connect" /\ InitFailed) => ENABLED GetConnection

C4_Witness ==
    /\ pc = "done"
    /\ Len(items) = 2
    /\ rejected = <<Error("ORA-12541: TNS:no listener")>>
    /\ outcome.kind = "throw"
    /\ outcome.error.message = "ORA-12541: TNS:no listener"

\* what the claim C5 expects record k of an executeQuery invocation to add
QueryOutputOf(k) ==
    IF Failed(k)
    THEN <<JsObj(<<<<"error", JsStr(IF ErrorOf(k).isError THEN ErrorOf(k).message
                                    ELSE "Unknown error occurred")>>>>)>>
    ELSE LET result == CallOf(k).result
             rows == Get(result, "rows")
             affected == Get(result, "rowsAffected")
         IN IF rows.tag = "array" THEN rows.v
            ELSE <<JsObj(<<<<"success", JsBool(TRUE)>>,
                           <<"rowsAffected",
                             IF affected.tag = "number" THEN affected ELSE JsNum(0)>>>>)>>
RECURSIVE QueryOutputUpTo(_)
QueryOutputUpTo(n) ==
    IF n = 0 THEN <<>> ELSE QueryOutputUpTo(n - 1) \o QueryOutputOf(n - 1)

\* C5: a successful ExecuteQuery record emits one output record per returned row, in
\* the driver's order, and no summary, if the driver returned row data (an empty row
\* list included); otherwise it emits exactly one {success: true, rowsAffected}, with
\* rowsAffected 0 when the driver reports none; the outputs of successive records are
\* concatenated in input order.
C5_QueryResultMapping ==
    operation = "executeQuery" =>
        /\ returnData = QueryOutputUpTo(i)
        /\ (pc = "done" /\ outcome.kind = "return") => outcome.data = <<returnData>>

C5_Witness ==
    /\ pc = "done"
    /\ operation = "executeQuery"
    /\ Len(calls) = 2
    /\ calls[1].ok /\ calls[1].result = JsObj(<<>>)
    /\ calls[2].ok /\ calls[2].result = JsObj(<<<<"rows", JsArr(<<Row1, Row2>>)>>>>)
    /\ outcome.kind = "return"
    /\ outcome.data[1] =
         <<JsObj(<<<<"success", JsBool(TRUE)>>, <<"rowsAffected", JsNum(0)>>>>), Row1, Row2>>

\* the user's value of an option, or its default when unset
UserOr(name, default) ==
    IF Get(options, name).tag = "undefined" THEN default ELSE Get(options, name)

\* C6 as stated: every statement of every operation variant is executed with
\* autoCommit (true when unset), fetch batch size (100 when unset) and maxRows
\* (0 when unset).
C6_AllOptionsEveryOperation ==
    \A n \in DOMAIN calls :
        LET e == calls[n].executeOptions
        IN /\ Get(e, "autoCommit") = UserOr("autoCommit", JsBool(TRUE))
           /\ Get(e, "fetchArraySize") = UserOr("fetchSize", JsNum(100))
           /\ Get(e, "maxRows") = UserOr("maxRows", JsNum(0))

\* C6 as amended: every statement is executed with autoCommit (true when unset, the
\* user's value otherwise); fetch batch size (100 when unset) and maxRows (0 when
\* unset) are applied to executeQuery statements alone, the other four operations
\* pass autoCommit and nothing else.
C6_OptionsPerOperation ==
    \A n \in DOMAIN calls :
        LET e == calls[n].executeOptions
        IN /\ Get(e, "autoCommit") = UserOr("autoCommit", JsBool(TRUE))
           /\ IF operation = "executeQuery"
              THEN /\ Get(e, "fetchArraySize") = UserOr("fetchSize", JsNum(100))
                   /\ Get(e, "maxRows") = UserOr("maxRows", JsNum(0))
              ELSE e = JsObj(<<<<"autoCommit", UserOr("autoCommit", JsBool(TRUE))>>>>)

C6_Witness ==
    /\ operation = "update"
    /\ options = JsObj(<<<<"autoCommit", JsBool(FALSE)>>, <<"fetchSize", JsNum(50)>>>>)
    /\ Len(calls) = 2
    /\ calls[2].executeOptions = JsObj(<<<<"autoCommit", JsBool(FALSE)>>>>)

\* C7 as stated: a successful ExecuteProcedure record emits exactly one output
\* record with success = true and the call's output parameters under a field named
\* outputParameters.
C7_OutputParametersField ==
    operation = "executeProcedure" =>
        \A n \in DOMAIN calls :
            calls[n].ok =>
                LET record == returnData[calls[n].item + 1]
                IN /\ Get(record, "success") = JsBool(TRUE)
                   /\ Get(record, "outputParameters") = Get(calls[n].result, "outBinds")

\* C7 as amended: a successful ExecuteProcedure record emits exactly one output
\* record, {success: true, outBinds}: the call's output parameters appear verbatim
\* under the field outBinds, which is an empty object when the call returned none.
C7_OutBindsField ==
    operation = "executeProcedure" =>
        /\ Len(returnData) = i
        /\ \A n \in DOMAIN calls :
             calls[n].ok =>
                LET record == returnData[calls[n].item + 1]
                    out == Get(calls[n].result, "outBinds")
                IN /\ Len(record.v) = 2
                   /\ Get(record, "success") = JsBool(TRUE)
                   /\ Get(record, "outBinds") =
                        (IF out.tag = "undefined" THEN JsObj(<<>>) ELSE out)

C7_Witness ==
    /\ pc = "done"
    /\ operation = "executeProcedure"
    /\ outcome.kind = "return"
    /\ Len(calls) = 2
    /\ calls[2].result = JsObj(<<<<"outBinds", JsObj(<<<<"total", JsNum(5)>>>>)>>>>)
    /\ outcome.data[1][2] =
         JsObj(<<<<"success", JsBool(TRUE)>>,
                 <<"outBinds", JsObj(<<<<"total", JsNum(5)>>>>)>>>>)

\* the fields of a record other than the key, by position
NonKeyPositions(json, key) == {p \in DOMAIN json.v : json.v[p][1] # key}
NthNonKey(json, key, n) ==
    json.v[CHOOSE p \in NonKeyPositions(json, key) :
              Cardinality({q \in NonKeyPositions(json, key) : q < p}) = n - 1]

\* C10: the SET clause of an update has exactly one `column = :valN` per record
\* field other than the key, in the record's field order; the key's value is bound
\* once, under keyN, a name distinct from every SET bind name and the only bind of
\* the WHERE clause; a record with no field but the key raises no error in the
\* builder and a statement with an empty SET clause is still sent to the driver.
C10_UpdateBuilder ==
    operation = "update" =>
        /\ \A k \in 0..(i - 1) : CallsOf(k) # {}
        /\ \A n \in DOMAIN thrown : CallsOf(thrown[n].item) # {}
        /\ \A n \in DOMAIN calls :
             LET json == items[calls[n].item + 1]
                 key == params.updateKey
                 count == Cardinality(NonKeyPositions(json, key))
                 binds == calls[n].binds
                 keyName == "key" \o ToString(count + 1)
             IN /\ Len(binds) = count + 1
                /\ \A m \in 1..count :
                     binds[m] = <<"val" \o ToString(m),
                                  convertToOracleType(NthNonKey(json, key, m)[2])>>
                /\ binds[count + 1] = <<keyName, convertToOracleType(Get(json, key))>>
                /\ \A m \in 1..count : binds[m][1] # keyName
                /\ calls[n].sql =
                     "UPDATE " \o params.table \o " SET "
                     \o Join([m \in 1..count |->
                                NthNonKey(json, key, m)[1] \o " = :val" \o ToString(m)], ", ")
                     \o " WHERE " \o key \o " = :" \o keyName

C10_Witness ==
    /\ operation = "update"
    /\ params.updateKey = "id"
    /\ Len(calls) = 2
    /\ calls[1].sql = "UPDATE employees SET  WHERE id = :key1"
    /\ calls[1].binds = <<<<"key1", JsNum(1001)>>>>
    /\ calls[2].sql = "UPDATE employees SET b = :val1, a = :val2 WHERE id = :key3"
    /\ calls[2].binds = <<<<"val1", JsStr("John")>>, <<"val2", JsNum(1)>>, <<"key3", JsNum(7)>>>>

\* record k has been dealt with: its statement succeeded, or its failure was caught
Handled(k) ==
    \/ \E n \in CallsOf(k) : calls[n].ok
    \/ Failed(k)
CloseFailed == Len(console) > 0 /\ console[Len(console)] = "Error closing connection:"

\* C11: records are processed one at a time in input order and never retried: the
\* statement of record j is issued only after every record before j has been dealt
\* with (success, or captured error), and each record's statement is issued at most
\* once, whether it succeeds or fails.
C11_SequentialNoRetry ==
    /\ \A n \in DOMAIN calls :
         /\ calls[n].item \in 0..(Len(items) - 1)
         /\ calls[n].item <= i
         /\ \A k \in 0..(calls[n].item - 1) :
              Handled(k) /\ (Failed(k) => continueOnFail)
         /\ \A m \in DOMAIN calls : m < n => calls[m].item < calls[n].item
    /\ \A k \in 0..(Len(items) - 1) :
         /\ Cardinality(CallsOf(k)) <= 1
         /\ Cardinality(ThrownOf(k)) <= 1
         /\ k >= i => (\A n \in CallsOf(k) : ~calls[n].ok)
    /\ \A n \in DOMAIN thrown : \A m \in DOMAIN thrown : m < n => thrown[m].item < thrown[n].item

C11_Witness ==
    /\ pc = "done"
    /\ continueOnFail
    /\ Len(items) = 2
    /\ Len(calls) = 2
    /\ calls[1].item = 0 /\ ~calls[1].ok
    /\ calls[2].item = 1 /\ calls[2].ok
    /\ Len(thrown) = 1

\* C12: a failure of the connection-close step is never re-raised and never changes
\* the outcome: after a completed loop the caller still receives the full output,
\* after an aborted loop the original per-record error and not the close error.
C12_CloseFailureIgnored ==
    (pc = "done" /\ CloseFailed) =>
        /\ closeCalls = 1
        /\ outcome = pending
        /\ IF ~continueOnFail /\ thrown # <<>>
           THEN outcome =
                  [kind |-> "throw",
                   error |-> [name |-> "NodeOperationError",
                              message |-> IF thrown[1].error.isError
                                          THEN thrown[1].error.message
                                          ELSE "An unknown error occurred"]]
           ELSE /\ i = Len(items)
                /\ outcome = [kind |-> "return", data |-> <<returnData>>]

C12_Witness ==
    /\ pc = "done"
    /\ CloseFailed
    /\ ~continueOnFail
    /\ Len(calls) = 2
    /\ thrown = <<[item |-> 1, error |-> Error("ORA-00942: table or view does not exist")]>>
    /\ outcome.kind = "throw"
    /\ outcome.error.message = "ORA-00942: table or view does not exist"

\* C13: every statement of an invocation is executed on its one connection while
\* that is open: none before the connection has been acquired, none after the close
\* step has been invoked, and the connection is acquired at most once.
C13_StatementsOnOpenConnection ==
    [][/\ calls' # calls =>
            /\ Len(calls') = Len(calls) + 1
            /\ SubSeq(calls', 1, Len(calls)) = calls
            /\ connection = "open" /\ connection' = "open"
            /\ calls'[Len(calls')].connection = "open"
            /\ rejected = <<>>
            /\ closeCalls = 0 /\ closeCalls' = 0
       /\ closeCalls > 0 => calls' = calls
       /\ (connection' # connection /\ connection' = "open") =>
            connection = "undefined" /\ pc = "connect" /\ calls = <<>>
       /\ pc \in {"loop", "finally", "done"} => pc' \in {"loop", "finally", "done"}
       /\ connection # "undefined" => connection' # "undefined"]_vars

C13_Witness ==
    /\ pc = "done"
    /\ Len(calls) = 2
    /\ \A n \in DOMAIN calls : calls[n].connection = "open"
    /\ closeCalls = 1
    /\ connection = "closed"

\* C14: when record k fails with continue-past-failure disabled, the statements of
\* records 0..k-1 have each been executed exactly once on the connection (and, with
\* autoCommit left at its default, committed); the abort does not undo them, although
\* none of their output records reaches the caller.
C14_EarlierStatementsStand ==
    (~continueOnFail /\ thrown # <<>>) =>
        LET k == thrown[1].item
        IN /\ \A j \in 0..(k - 1) :
                /\ Cardinality(CallsOf(j)) = 1
                /\ CallOf(j).ok
                /\ CallOf(j).connection = "open"
           /\ Get(options, "autoCommit").tag = "undefined" =>
                /\ \A j \in 0..(k - 1) :
                     Get(CallOf(j).executeOptions, "autoCommit") = JsBool(TRUE)
                /\ database.committed = [j \in 1..k |-> j - 1]
                /\ database.uncommitted = <<>>
           /\ Len(database.committed) + Len(database.uncommitted) <= k
           /\ pending.kind = "throw"
           /\ DOMAIN pending = {"kind", "error"}
           /\ pc = "done" => outcome = pending

C14_Witness ==
    /\ pc = "done"
    /\ ~continueOnFail
    /\ options = JsObj(<<>>)
    /\ operation = "insert"
    /\ Len(items) = 2
    /\ Len(thrown) = 1 /\ thrown[1].item = 1
    /\ Len(returnData) = 1
    /\ database.committed = <<0>>
    /\ connection = "closed"
    /\ outcome.kind = "throw"

====
